---- MODULE Spec2Model ----
(***************************************************************************)
(* Day-of-year calculator (lesson2-class-func/linyifan_day_of_year.cpp).   *)
(*                                                                         *)
(* One process reads "year month day" from standard input, adjusts the     *)
(* February entry of a global month-length table when the year passes the  *)
(* leap test, sums the table entries 1..m-1, adds the day (or the month's  *)
(* length when the day is not below it) and prints the sum.                *)
(*                                                                         *)
(* A run is modelled statement by statement.  Globals `sum` and `month`    *)
(* have static storage: they hold their initialisers when a process        *)
(* starts.  A table access outside the declared 15 elements is undefined   *)
(* behaviour: it yields any of OobValues or faults.                        *)
(***************************************************************************)
EXTENDS Integers, Sequences, FiniteSets

\* ---------------------------------------------------------------- bounds
MaxAbsYear == 4     \* years -MaxAbsYear..MaxAbsYear, plus NamedYears
MaxBelowMonth == 2  \* months from -MaxBelowMonth ...
MaxMonth == 16      \* ... to MaxMonth (the table has indices 0..14)
MaxBelowDay == 2    \* days from -MaxBelowDay ...
MaxDay == 32        \* ... to MaxDay, plus FarDays

NamedYears == {-400, -100, -8, 100, 400, 1900, 2000, 2023, 2024}
FarDays == {300}

Years == (-MaxAbsYear .. MaxAbsYear) \cup NamedYears
Months == (-MaxBelowMonth) .. MaxMonth
Days == ((-MaxBelowDay) .. MaxDay) \cup FarDays
Inputs == Years \X Months \X Days

\* What a read outside the table may yield.
OobValues == {-1, 0, 31}

\* Inputs a later process may be started with besides the previous input
\* and its calendar neighbours.
RerunInputs == {<<2024, 3, 1>>, <<2023, 3, 1>>, <<2024, 2, 300>>}

\* ------------------------------------------------------- program constants
\* int month[15]
TableSize == 15

\* ={0,31,28,31,30,31,30,31,31,30,31,30,31}; the remaining elements are
\* value-initialised to 0.
MonthInit == <<0, 31, 28, 31, 30, 31, 30, 31, 31, 30, 31, 30, 31>>

InitialTable ==
  [k \in 0 .. (TableSize - 1) |-> IF k < Len(MonthInit) THEN MonthInit[k + 1] ELSE 0]

\* The table a starting process holds, whatever table tbl an earlier process
\* ended with: static storage is initialised afresh for every process.
StartTableKept(tbl) == tbl

StartTable(tbl) == InitialTable

\* int sum; (zero-initialised at process start)
StartSum(s) == 0

\* ------------------------------------------------------------ expressions
\* a % b on int for b > 0: the remainder of the division truncated toward
\* zero, so it carries the sign of a.
CRem(a, b) == IF a >= 0 THEN a % b ELSE -((-a) % b)

\* y%4==0&&(y%100>0||y%400==0)
IsLeap(yy) == CRem(yy, 4) = 0 /\ (CRem(yy, 100) > 0 \/ CRem(yy, 400) = 0)

\* month[2]+=1;
LeapAdjustMarch(tbl) == [tbl EXCEPT ![3] = @ + 1]

LeapAdjustTwice(tbl) == [tbl EXCEPT ![2] = @ + 2]

LeapAdjust(tbl) == [tbl EXCEPT ![2] = @ + 1]

\* i<m
LoopCondInclusive(ii, mm) == ii <= mm

LoopCond(ii, mm) == ii < mm

\* d>=month[m]
ClampCond(dd, len) == dd >= len

\* if(d>=month[m]) sum+=month[m]; else sum+=d;  -- the amount added
ClampAddLiteral(dd, len) == dd

ClampAddBothEnds(dd, len) == IF dd >= len \/ dd < 1 THEN len ELSE dd

ClampAdd(dd, len) == IF ClampCond(dd, len) THEN len ELSE dd

\* An index the declaration int month[15] covers.
InBoundsThirteen(k) == k \in 0 .. 12

InBounds(k) == k \in 0 .. (TableSize - 1)

\* ------------------------------------------------------------------ state
VARIABLES
  stdin,      \* the three integers on standard input
  pc,         \* the statement the process is at
  y, m, d,    \* main's locals (never read before line 7 assigns them)
  i,          \* the loop variable
  sum,        \* global accumulator
  month,      \* global month-length table, indices 0..14
  stdout,     \* what has been written to standard output
  leapBranch, \* whether the body of the leap-year `if` was executed
  accesses,   \* the table accesses of this process, in order
  prev        \* <<>> or <<[in, out]>>: input and output of the previous process

vars == <<stdin, pc, y, m, d, i, sum, month, stdout, leapBranch, accesses, prev>>

Read(k) == [op |-> "r", idx |-> k]
Write(k) == [op |-> "w", idx |-> k]

Init ==
  /\ stdin \in Inputs
  /\ pc = "read"
  /\ y = 0 /\ m = 0 /\ d = 0 /\ i = 0
  /\ sum = StartSum(0)
  /\ month = StartTable(InitialTable)
  /\ stdout = <<>>
  /\ leapBranch = FALSE
  /\ accesses = <<>>
  /\ prev = <<>>

\* cin>>y>>m>>d;
ReadInput ==
  /\ pc = "read"
  /\ y' = stdin[1] /\ m' = stdin[2] /\ d' = stdin[3]
  /\ pc' = "leap"
  /\ UNCHANGED <<stdin, i, sum, month, stdout, leapBranch, accesses, prev>>

\* if(y%4==0&&(y%100>0||y%400==0)){ month[2]+=1; }
\* The compound assignment's load and store of month[2] are one step.
LeapYear ==
  /\ pc = "leap"
  /\ IF IsLeap(y)
       THEN /\ month' = LeapAdjust(month)
            /\ leapBranch' = TRUE
            /\ accesses' = Append(accesses, Write(2))
       ELSE UNCHANGED <<month, leapBranch, accesses>>
  /\ pc' = "forinit"
  /\ UNCHANGED <<stdin, y, m, d, i, sum, stdout, prev>>

\* for(int i=1; ...
ForInit ==
  /\ pc = "forinit"
  /\ i' = 1
  /\ pc' = "loop"
  /\ UNCHANGED <<stdin, y, m, d, sum, month, stdout, leapBranch, accesses, prev>>

\* ...;i<m;i++){ sum+=month[i]; }   one iteration, index inside the table
LoopBody ==
  /\ pc = "loop"
  /\ LoopCond(i, m)
  /\ InBounds(i)
  /\ sum' = sum + month[i]
  /\ accesses' = Append(accesses, Read(i))
  /\ i' = i + 1
  /\ UNCHANGED <<stdin, pc, y, m, d, month, stdout, leapBranch, prev>>

\* The same iteration with i outside the table: the value read is arbitrary.
LoopBodyOob ==
  /\ pc = "loop"
  /\ LoopCond(i, m)
  /\ ~InBounds(i)
  /\ \E v \in OobValues : sum' = sum + v
  /\ accesses' = Append(accesses, Read(i))
  /\ i' = i + 1
  /\ UNCHANGED <<stdin, pc, y, m, d, month, stdout, leapBranch, prev>>

\* i<m is false: leave the loop.
LoopExit ==
  /\ pc = "loop"
  /\ ~LoopCond(i, m)
  /\ pc' = "clamp"
  /\ UNCHANGED <<stdin, y, m, d, i, sum, month, stdout, leapBranch, accesses, prev>>

\* if(d>=month[m]){ sum+=month[m]; }else{ sum+=d; }
ClampDay ==
  /\ pc = "clamp"
  /\ InBounds(m)
  /\ sum' = sum + ClampAdd(d, month[m])
  /\ accesses' = Append(accesses, Read(m))
  /\ pc' = "out"
  /\ UNCHANGED <<stdin, y, m, d, i, month, stdout, leapBranch, prev>>

\* The same statement with m outside the table.
ClampDayOob ==
  /\ pc = "clamp"
  /\ ~InBounds(m)
  /\ \E v \in OobValues : sum' = sum + ClampAdd(d, v)
  /\ accesses' = Append(accesses, Read(m))
  /\ pc' = "out"
  /\ UNCHANGED <<stdin, y, m, d, i, month, stdout, leapBranch, prev>>

\* An access outside the table may also end the process abnormally.
OobFault ==
  /\ \/ pc = "loop" /\ LoopCond(i, m) /\ ~InBounds(i)
     \/ pc = "clamp" /\ ~InBounds(m)
  /\ pc' = "crashed"
  /\ UNCHANGED <<stdin, y, m, d, i, sum, month, stdout, leapBranch, accesses, prev>>

\* cout<<sum; return 0;
WriteOutput ==
  /\ pc = "out"
  /\ stdout' = <<sum>>
  /\ pc' = "done"
  /\ UNCHANGED <<stdin, y, m, d, i, sum, month, leapBranch, accesses, prev>>

\* Inputs the next process may be given: the same, the next day of the same
\* month, the first day of the next month, or one of RerunInputs.
NextInputs(in) ==
  ({in, <<in[1], in[2], in[3] + 1>>, <<in[1], in[2] + 1, 1>>} \cap Inputs)
    \cup RerunInputs

\* The program is run again: a new process, with freshly initialised globals.
Restart ==
  /\ pc \in {"done", "crashed"}
  /\ prev' = IF pc = "done" THEN <<[in |-> stdin, out |-> stdout[1]]>> ELSE <<>>
  /\ stdin' \in NextInputs(stdin)
  /\ pc' = "read"
  /\ y' = 0 /\ m' = 0 /\ d' = 0 /\ i' = 0
  /\ sum' = StartSum(sum)
  /\ month' = StartTable(month)
  /\ stdout' = <<>>
  /\ leapBranch' = FALSE
  /\ accesses' = <<>>

Next ==
  \/ ReadInput
  \/ LeapYear
  \/ ForInit
  \/ LoopBody
  \/ LoopBodyOob
  \/ LoopExit
  \/ ClampDay
  \/ ClampDayOob
  \/ OobFault
  \/ WriteOutput

\* One run of the program.
Spec == Init /\ [][Next]_vars

NextRuns == Next \/ Restart

\* The program run again and again.
SpecRuns == Init /\ [][NextRuns]_vars

\* ------------------------------------------------- reference definitions
Finished == pc = "done"

Output == stdout[1]

AfterLeapTest == pc \in {"forinit", "loop", "clamp", "out", "done", "crashed"}

\* The Gregorian rule on the mathematical remainder.
GregorianLeap(yy) == yy % 4 = 0 /\ (yy % 100 # 0 \/ yy % 400 = 0)

\* The rule as the design document words it, on the program's remainder.
DocumentedLeap(yy) == CRem(yy, 4) = 0 /\ (CRem(yy, 100) # 0 \/ CRem(yy, 400) = 0)

\* Calendar length of month mm in a leap or a common year.
DaysIn(mm, leap) ==
  IF mm = 2 THEN (IF leap THEN 29 ELSE 28)
  ELSE IF mm \in {4, 6, 9, 11} THEN 30 ELSE 31

RECURSIVE DaysBefore(_, _)
\* Total length of the months 1..mm-1.
DaysBefore(mm, leap) ==
  IF mm <= 1 THEN 0 ELSE DaysBefore(mm - 1, leap) + DaysIn(mm - 1, leap)

CalendarMonths == 1 .. 12

\* ----------------------------------------------------------------- claims

\* C1: for every year, month in 1..12 and day in 1..daysIn(month, leap), the
\* output is the Gregorian ordinal day of the year, February having 29 days
\* exactly in Gregorian leap years.
C1_GregorianOrdinal ==
  (Finished /\ m \in CalendarMonths /\ d >= 1 /\ d <= DaysIn(m, GregorianLeap(y)))
    => Output = DaysBefore(m, GregorianLeap(y)) + d

\* C2: for every integer year the leap-year branch is taken if and only if
\* year % 4 == 0 and (year % 100 != 0 or year % 400 == 0), with the program's
\* own remainder.
C2_LeapBranchIffDocumented ==
  AfterLeapTest => (leapBranch <=> DocumentedLeap(y))

\* C3: for month in 1..12, when day >= the month's length the output is the
\* total of the preceding months plus the month's length, whatever the excess
\* of day; when day is below the month's length the day itself is added.
\* (2023,1,300) and (2023,1,31) both give 31.
C3_ClampAdd ==
  (Finished /\ m \in CalendarMonths) =>
    /\ d >= DaysIn(m, leapBranch)
         => Output = DaysBefore(m, leapBranch) + DaysIn(m, leapBranch)
    /\ d < DaysIn(m, leapBranch) => Output = DaysBefore(m, leapBranch) + d
    /\ month[m] = DaysIn(m, leapBranch)
    /\ stdin \in {<<2023, 1, 300>>, <<2023, 1, 31>>} => Output = 31

C3_Witness ==
  Finished /\ stdin = <<2023, 1, 300>> /\ Output = 31

\* C4 as claimed: for month in 1..12 and day < 1 the output is that of the
\* month's last day.
C4_ClampsBelowOne ==
  (Finished /\ m \in CalendarMonths /\ d < 1)
    => Output = DaysBefore(m, leapBranch) + DaysIn(m, leapBranch)

\* C4 amended: for month in 1..12 and day < 1 nothing is clamped; the day is
\* added as it is, so the output is at most the total of the preceding months
\* and below the output for every day 1.. of that month.
C4_AddsLiteralBelowOne ==
  (Finished /\ m \in CalendarMonths /\ d < 1)
    => /\ Output = DaysBefore(m, leapBranch) + d
       /\ Output <= DaysBefore(m, leapBranch)

C4_Witness ==
  Finished /\ m = 3 /\ d = 0 /\ leapBranch /\ Output = 60

\* C5: for month in 1..12 and day >= 1 the output lies in 1..365, or 1..366
\* in a leap year; 1 is the output only for January 1, and the upper bound
\* only for December with day >= 31.
C5_OrdinalRange ==
  (Finished /\ m \in CalendarMonths /\ d >= 1) =>
    /\ Output >= 1
    /\ Output <= (IF GregorianLeap(y) THEN 366 ELSE 365)
    /\ Output <= (IF leapBranch THEN 366 ELSE 365)
    /\ Output = 1 => (m = 1 /\ d = 1)
    /\ Output = (IF GregorianLeap(y) THEN 366 ELSE 365) => (m = 12 /\ d >= 31)
    /\ Output = (IF leapBranch THEN 366 ELSE 365) => (m = 12 /\ d >= 31)

C5_Witness ==
  Finished /\ m = 12 /\ d > 31 /\ Output = 366

\* C6 as claimed: a process given the same three integers as the previous
\* process prints the same number.
C6_SameInputSameOutput ==
  (Finished /\ prev # <<>> /\ prev[1].in = stdin) => Output = prev[1].out

\* C6 amended: the same, for month in 0..14 (every table access inside the
\* table); and every process starts with sum = 0 and the non-leap table.
C6_SameInputSameOutputInBounds ==
  /\ (Finished /\ prev # <<>> /\ prev[1].in = stdin /\ m \in 0 .. 14)
       => Output = prev[1].out
  /\ pc = "read"
       => (sum = 0 /\ month[2] = 28 /\ month = InitialTable /\ accesses = <<>>)

C6_Witness ==
  Finished /\ prev # <<>> /\ prev[1].in = stdin /\ leapBranch /\ m = 3 /\ Output = 61

\* C7: from the end of the leap-year adjustment onward, month[2] is 29 if the
\* documented leap-year predicate holds for the input year and 28 otherwise.
C7_FebruaryFollowsPredicate ==
  AfterLeapTest => month[2] = (IF DocumentedLeap(y) THEN 29 ELSE 28)

\* The table's initial contents as the design document lists them.
C8_Expected == <<0, 31, 28, 31, 30, 31, 30, 31, 31, 30, 31, 30, 31, 0, 0>>

\* C8: the table is written at most once per run; the only write is to index
\* 2, it precedes every read, and all other entries keep their initial values
\* 0,31,_,31,30,31,30,31,31,30,31,30,31,0,0; the loop and the clamp-add step
\* do not change the table.
C8_TableFrame ==
  /\ \A k \in 1 .. Len(accesses) :
       accesses[k].op = "w" => (k = 1 /\ accesses[k].idx = 2)
  /\ \A k \in (0 .. 14) \ {2} : month[k] = C8_Expected[k + 1]
  /\ DOMAIN month = 0 .. 14
  /\ month[2] = (IF leapBranch THEN 29 ELSE 28)
  /\ leapBranch <=> (accesses # <<>> /\ accesses[1].op = "w")
  /\ ~AfterLeapTest => (month[2] = 28 /\ accesses = <<>>)

C8_Witness ==
  Finished /\ leapBranch /\ Len(accesses) > 3 /\ month[2] = 29

\* C9: within a year, with monthLength the table of that run, the output for
\* (m, d+1) is one more than for (m, d) when 1 <= d < monthLength[m], and
\* the output for (m+1, 1) is one more than for (m, monthLength[m]); the
\* first date gives 1 and the last gives 365, or 366 when February has 29.
C9_ConsecutiveDates ==
  /\ (Finished /\ m \in CalendarMonths /\ prev # <<>> /\ prev[1].in[1] = y) =>
       /\ (/\ prev[1].in[2] = m
           /\ prev[1].in[3] + 1 = d
           /\ prev[1].in[3] >= 1
           /\ prev[1].in[3] < DaysIn(m, leapBranch))
            => Output = prev[1].out + 1
       /\ (/\ prev[1].in[2] + 1 = m
           /\ prev[1].in[2] >= 1
           /\ d = 1
           /\ prev[1].in[3] = DaysIn(m - 1, leapBranch))
            => Output = prev[1].out + 1
  /\ (Finished /\ m = 1 /\ d = 1) => Output = 1
  /\ (Finished /\ m = 12 /\ d = 31) => Output = (IF month[2] = 29 THEN 366 ELSE 365)

C9_Witness ==
  /\ Finished /\ prev # <<>>
  /\ prev[1].in = <<2024, 2, 29>> /\ prev[1].out = 60
  /\ stdin = <<2024, 3, 1>> /\ Output = 61

\* C10: for month in 0..14 every index read (1..month-1 by the loop, then
\* month by the clamp-add step) lies in 0..14, and months 0, 13 and 14 read
\* entries equal to 0; for month < 0 or month >= 15 the clamp-add step reads
\* index month, outside 0..14.
C10_TableBounds ==
  /\ m \in 0 .. 14 =>
       /\ pc # "crashed"
       /\ \A k \in 1 .. Len(accesses) : accesses[k].idx \in 0 .. 14
       /\ \A k \in 1 .. Len(accesses) : InBounds(accesses[k].idx)
       /\ LET r == SelectSeq(accesses, LAMBDA a : a.op = "r")
          IN  /\ \A k \in 1 .. Len(r) : (k < m => r[k].idx = k)
              /\ pc \in {"out", "done"} =>
                   /\ Len(r) = (IF m = 0 THEN 1 ELSE m)
                   /\ r[Len(r)].idx = m
       /\ (pc \in {"out", "done"} /\ m \in {0, 13, 14}) => month[m] = 0
  /\ (pc \in {"out", "done"} /\ m \notin 0 .. 14) =>
       /\ accesses[Len(accesses)] = Read(m)
       /\ ~InBounds(m)

C10_Witness ==
  Finished /\ m = 14 /\ Len(accesses) >= 14

====
